---- MODULE Spec2Model ----
(***************************************************************************)
(* ssh-keyctl: init / revoke / renew of per-host SSH identities.           *)
(*                                                                         *)
(* The model follows src/src/main.rs and src/src/cli.rs.  The identity     *)
(* store (~/.ssh) and the remote authorized_keys file are the shared       *)
(* state; every invocation of the binary is a process whose steps are the  *)
(* system calls main.rs performs, in program order.                        *)
(*                                                                         *)
(* Strings are sequences of tokens (a token stands for a run of            *)
(* characters that contains neither '@', '/', '.', nor white space,        *)
(* unless it is exactly that character or the extension ".pub").           *)
(***************************************************************************)
EXTENDS Integers, Sequences, FiniteSets, TLC

(***************************************************************************)
(* Bounds of the model.                                                    *)
(***************************************************************************)
MaxCmds == 2            \* invocations of the binary in one behaviour

None == "None"
Procs == {1, 2}

(***************************************************************************)
(* Permission bits.                                                        *)
(***************************************************************************)
DefaultCreateMode == 438     \* 0o666, what OpenOptions passes to open(2)
OwnerRW == 384               \* 0o600

RECURSIVE BitAnd(_, _)
BitAnd(a, b) ==
    IF a = 0 \/ b = 0 THEN 0
    ELSE (a % 2) * (b % 2) + 2 * BitAnd(a \div 2, b \div 2)

\* mode of a file created by open(2) with mode m under umask u: m & ~u
CreateMode(m, u) == m - BitAnd(m, u)

Umasks == {18, 63}           \* 0o022, 0o077

(***************************************************************************)
(* Strings.                                                                *)
(***************************************************************************)
RECURSIVE Split(_, _)
\* str::split(sep): the pieces of s between occurrences of sep
Split(s, sep) ==
    IF \A i \in 1..Len(s) : s[i] # sep THEN <<s>>
    ELSE LET i == CHOOSE i \in 1..Len(s) :
                     s[i] = sep /\ \A j \in 1..(i - 1) : s[j] # sep
         IN  <<SubSeq(s, 1, i - 1)>> \o Split(SubSeq(s, i + 1, Len(s)), sep)

IsSpace(c) == c \in {" ", "\n"}

RECURSIVE TrimStart(_)
TrimStart(s) == IF s # <<>> /\ IsSpace(Head(s)) THEN TrimStart(Tail(s)) ELSE s

RECURSIVE TrimEnd(_)
TrimEnd(s) ==
    IF s # <<>> /\ IsSpace(s[Len(s)]) THEN TrimEnd(SubSeq(s, 1, Len(s) - 1)) ELSE s

\* str::trim
Trim(s) == TrimEnd(TrimStart(s))

RECURSIVE Replace(_, _, _)
\* str::replace(from, to) for a one-character `from`
Replace(s, from, to) ==
    IF s = <<>> THEN <<>>
    ELSE (IF Head(s) = from THEN to ELSE <<Head(s)>>) \o Replace(Tail(s), from, to)

\* key_data.trim().replace("/", "\\/")     (main.rs:127)
EscapeKeyData(s) == Replace(Trim(s), "/", <<"\\", "/">>)

RECURSIVE SedUnescape(_)
\* sed reads the address /re/ : a backslash before the delimiter stands for
\* the delimiter itself
SedUnescape(s) ==
    IF s = <<>> THEN <<>>
    ELSE IF Head(s) = "\\" /\ Len(s) >= 2 /\ s[2] = "/"
         THEN <<"/">> \o SedUnescape(SubSeq(s, 3, Len(s)))
         ELSE <<Head(s)>> \o SedUnescape(Tail(s))

Contains(line, pat) ==
    \E i \in 1..(Len(line) - Len(pat) + 1) : SubSeq(line, i, i + Len(pat) - 1) = pat

RECURSIVE SedDelete_Inverted(_, _)
\* SedDelete with the match inverted ('/pat/!d'): the other lines are dropped
SedDelete_Inverted(lines, pat) ==
    IF lines = <<>> THEN <<>>
    ELSE (IF Contains(Head(lines), SedUnescape(pat)) THEN <<Head(lines)>> ELSE <<>>)
         \o SedDelete_Inverted(Tail(lines), pat)

RECURSIVE SedDelete(_, _)
\* sed -i '/pat/d' file : drop every line in which the pattern occurs
SedDelete(lines, pat) ==
    IF lines = <<>> THEN <<>>
    ELSE (IF Contains(Head(lines), SedUnescape(pat)) THEN <<>> ELSE <<Head(lines)>>)
         \o SedDelete(Tail(lines), pat)

(***************************************************************************)
(* Key material (osshkeys, consumed through its interface).                *)
(***************************************************************************)
KeyIds == <<"k1", "k2", "k3", "k4", "k5", "k6", "k7", "k8">>
KeyTypes == {"ed25519", "rsa"}

\* the base64 body of a key; an RSA body is longer and holds a '/'
KeyBody(kp) ==
    IF kp.key_type = "rsa" THEN <<kp.id, "/", kp.id>> ELSE <<kp.id>>

\* KeyPair::serialize_openssh(passphrase, Cipher::Aes256_Ctr)   (main.rs:55-58)
serialize_openssh(kp, passphrase) ==
    <<"-----BEGIN-----", IF passphrase = None THEN "none" ELSE "aes256-ctr">>
        \o KeyBody(kp) \o <<"-----END-----">>

\* KeyPair::serialize_publickey()   (main.rs:66): "<type> <base64> <comment>"
serialize_publickey(kp) ==
    <<kp.key_type, " ">> \o KeyBody(kp) \o <<" ", kp.comment>>

(***************************************************************************)
(* Paths of the identity store.                                            *)
(***************************************************************************)
ssh_folder == <<"~/.ssh/">>                     \* main.rs:40-41, 119-120

\* PathBuf::push(name)
Push(dir, name) == dir \o name

\* format!("{}.pub", name)
DotPub(name) == name \o <<".pub">>

\* PathBuf::set_file_name(name): replace the component after the folder
SetFileName(path, name) == SubSeq(path, 1, Len(ssh_folder)) \o name

\* PathBuf::set_extension(""): drop the extension of the file name
SetExtensionEmpty(path) ==
    IF Len(path) > Len(ssh_folder) + 1 /\ path[Len(path)] = ".pub"
    THEN SubSeq(path, 1, Len(path) - 1)
    ELSE path

(***************************************************************************)
(* The command line (cli.rs).                                              *)
(***************************************************************************)
Targets == { <<"h">>, <<"u", "@", "h">>, <<"a", "@", "b", "@", "h">> }
NoName == <<>>                 \* Option<String>::None of identity_file_path
IdentityNames == { NoName, <<"id">> }
Comments == { None, "c" }
Passphrases == { None, "pw" }
Ports == { 22 }

KeyInit ==
    [ target : Targets, key_type : KeyTypes, comment : Comments, port : Ports,
      passphrase : Passphrases, force : BOOLEAN ]

KeyRevoke ==
    [ target : Targets, identity_file_path : IdentityNames, port : Ports,
      delete_identity_file : BOOLEAN ]

KeyRenew ==
    [ target : Targets, key_type : KeyTypes, comment : Comments, port : Ports,
      password : Passphrases, force : BOOLEAN,
      identity_file_path : IdentityNames, delete_identity_file : BOOLEAN ]

\* impl From<KeyRenew> for KeyInit   (cli.rs:62-73)
KeyInitFromRenew(key_renew) ==
    [ target     |-> key_renew.target,
      key_type   |-> key_renew.key_type,
      comment    |-> key_renew.comment,
      port       |-> key_renew.port,
      passphrase |-> key_renew.password,
      force      |-> key_renew.force ]

\* impl From<KeyRenew> for KeyRevoke   (cli.rs:99-108)
KeyRevokeFromRenew(key_renew) ==
    [ target               |-> key_renew.target,
      identity_file_path   |-> key_renew.identity_file_path,
      port                 |-> key_renew.port,
      delete_identity_file |-> key_renew.delete_identity_file ]

\* enum SubCommands   (cli.rs:19-24)
SubCommands ==
    [ cmd : {"Init"}, args : KeyInit ] \cup
    [ cmd : {"Revoke"}, args : KeyRevoke ] \cup
    [ cmd : {"Renew"}, args : KeyRenew ]

\* args.target.split("@").collect::<Vec<_>>()   (main.rs:43, 112)
SplitTarget(target) == Split(target, "@")

\* the slice patterns [target] and [_, target]; any other length panics
\* (main.rs:44-48, 113-117)
TargetMatches(parts) == Len(parts) \in {1, 2}
TargetHost(parts) == parts[Len(parts)]

(***************************************************************************)
(* State.                                                                  *)
(***************************************************************************)
VARIABLES
    fs,         \* identity store: path -> [data, mode], for the files present
    remote,     \* lines of the target's .ssh/authorized_keys
    umask,      \* the umask the invocations run under
    opts,       \* opts[p]: the parsed sub-command of invocation p
    pc,         \* pc[p]: where invocation p stands
    fn,         \* fn[p]: the function of main.rs running ("init", "revoke")
    args,       \* args[p]: the KeyInit / KeyRevoke the function was given
    sw,         \* sw[p]: the arguments of the running safely_write call
    sw_ret,     \* sw_ret[p]: the last safely_write call that returned
    fd,         \* fd[p]: the file safely_write holds open
    rv,         \* rv[p]: the locals of revoke
    key_pair,   \* key_pair[p]: the key pair init generated
    result,     \* result[p]: how the invocation ended
    site,       \* site[p]: the place where a failed invocation failed
    nkeys,      \* key pairs generated so far
    ncmds,      \* invocations started so far
    child,      \* child[p]: the ssh process invocation p spawned
    ssh_log,    \* ssh_log[p]: the ssh commands of invocation p that have run
    snap,       \* snap[p]: the identity store when invocation p started
    touched     \* touched[p]: the file operations invocation p performed

env_vars == <<fs, remote, umask>>
proc_vars == <<opts, pc, fn, args, sw, sw_ret, fd, rv, key_pair, result, site, child>>
hist_vars == <<nkeys, ncmds, ssh_log, snap, touched>>
vars == <<fs, remote, umask, opts, pc, fn, args, sw, sw_ret, fd, rv, key_pair, result,
          site, child, nkeys, ncmds, ssh_log, snap, touched>>

NoOpts == [cmd |-> None]
NoArgs == [target |-> <<>>]
NoFile == [data |-> <<>>, mode |-> 0]
NoSw == [which |-> None, path |-> <<>>, buffer |-> <<>>, is_private |-> FALSE,
         force |-> FALSE, existed |-> FALSE, old |-> NoFile]
NoSwRet == [which |-> None, path |-> <<>>, buffer |-> <<>>, is_private |-> FALSE,
            force |-> FALSE, existed |-> FALSE, old |-> NoFile, res |-> None]
NoFd == [open |-> FALSE, path |-> <<>>, unlinked |-> FALSE]
NoRv == [target |-> <<>>, key_file_path |-> <<>>, key_data |-> <<>>]
NoKeyPair == [id |-> None, key_type |-> None, comment |-> None]
NoChild == [state |-> "none", status |-> 0]

Exists(path) == path \in DOMAIN fs

File(data, mode) == [data |-> data, mode |-> mode]

(***************************************************************************)
(* The states the store and the remote list may be in when the first       *)
(* invocation starts: an empty store, or one that holds an identity "h"    *)
(* that the user put there (private key world-readable, as after a plain   *)
(* copy), or only the public half of it.                                   *)
(***************************************************************************)
OldKey == [id |-> "k0", key_type |-> "rsa", comment |-> "c"]
OtherKey == [id |-> "kx", key_type |-> "ed25519", comment |-> "c"]
OldPrivPath == Push(ssh_folder, <<"h">>)
OldPubPath == Push(ssh_folder, DotPub(<<"h">>))
OldPriv == File(serialize_openssh(OldKey, None) \o <<"\n">>, 420)
OldPub == File(serialize_publickey(OldKey) \o <<"\n">>, 420)

\* an identity the user keeps under a name of their own
NamedPrivPath == Push(ssh_folder, <<"id">>)
NamedPubPath == Push(ssh_folder, DotPub(<<"id">>))

InitialStores ==
    { <<>>,
      (OldPrivPath :> OldPriv) @@ (OldPubPath :> OldPub),
      (OldPubPath :> OldPub),
      (NamedPrivPath :> OldPriv) @@ (NamedPubPath :> OldPub) }

InitialRemotes ==
    { <<serialize_publickey(OtherKey)>>,
      <<serialize_publickey(OtherKey), serialize_publickey(OldKey)>> }

Init ==
    /\ fs \in InitialStores
    /\ remote \in InitialRemotes
    /\ umask \in Umasks
    /\ opts = [p \in Procs |-> NoOpts]
    /\ pc = [p \in Procs |-> "idle"]
    /\ fn = [p \in Procs |-> None]
    /\ args = [p \in Procs |-> NoArgs]
    /\ sw = [p \in Procs |-> NoSw]
    /\ sw_ret = [p \in Procs |-> NoSwRet]
    /\ fd = [p \in Procs |-> NoFd]
    /\ rv = [p \in Procs |-> NoRv]
    /\ key_pair = [p \in Procs |-> NoKeyPair]
    /\ result = [p \in Procs |-> None]
    /\ site = [p \in Procs |-> None]
    /\ nkeys = 0
    /\ ncmds = 0
    /\ child = [p \in Procs |-> NoChild]
    /\ ssh_log = [p \in Procs |-> <<>>]
    /\ snap = [p \in Procs |-> <<>>]
    /\ touched = [p \in Procs |-> {}]

(***************************************************************************)
(* main (main.rs:25-35).                                                   *)
(***************************************************************************)
Ok == "Ok"
ErrNotFound == "Err(IO(NotFound))"
ErrAlreadyExists == "Err(IO(AlreadyExists))"
ErrChild == "Err(IO(ECHILD))"
Panic == "panic"

\* the exit status of the process: 0 for Ok(()), 1 for Err, 101 for a panic
ExitCode(res) == IF res = Ok THEN 0 ELSE IF res = Panic THEN 101 ELSE 1

\* the Renew arm: `revoke(..)?; init(..)?` -- init runs once revoke gave Ok
RenewContinues(p, res) ==
    opts[p].cmd = "Renew" /\ fn[p] = "revoke" /\ res = Ok

\* The running function of invocation p ends with res at place `where`:
\* `?` hands an Err to main, which returns it; a panic unwinds the process.
Return(p, res, where) ==
    IF RenewContinues(p, res)
    THEN /\ pc' = [pc EXCEPT ![p] = "init"]
         /\ fn' = [fn EXCEPT ![p] = "init"]
         /\ args' = [args EXCEPT ![p] = KeyInitFromRenew(opts[p].args)]
         /\ UNCHANGED <<result, site>>
    ELSE /\ pc' = [pc EXCEPT ![p] = "done"]
         /\ result' = [result EXCEPT ![p] = res]
         /\ site' = [site EXCEPT ![p] = where]
         /\ UNCHANGED <<fn, args>>

\* the function goes on to its next step
Goto(p, where) ==
    /\ pc' = [pc EXCEPT ![p] = where]
    /\ UNCHANGED <<fn, args, result, site>>

\* Opts::parse().subcmd and the match of main (main.rs:26-30)
Start(p, subcmd) ==
    /\ pc[p] \in {"idle", "done"}
    /\ ncmds < MaxCmds
    /\ ncmds' = ncmds + 1
    /\ opts' = [opts EXCEPT ![p] = subcmd]
    /\ fn' = [fn EXCEPT ![p] = IF subcmd.cmd = "Init" THEN "init" ELSE "revoke"]
    /\ pc' = [pc EXCEPT ![p] = IF subcmd.cmd = "Init" THEN "init" ELSE "revoke"]
    /\ args' = [args EXCEPT ![p] =
                   IF subcmd.cmd = "Renew" THEN KeyRevokeFromRenew(subcmd.args)
                   ELSE subcmd.args]
    /\ sw' = [sw EXCEPT ![p] = NoSw]
    /\ sw_ret' = [sw_ret EXCEPT ![p] = NoSwRet]
    /\ fd' = [fd EXCEPT ![p] = NoFd]
    /\ rv' = [rv EXCEPT ![p] = NoRv]
    /\ key_pair' = [key_pair EXCEPT ![p] = NoKeyPair]
    /\ result' = [result EXCEPT ![p] = None]
    /\ site' = [site EXCEPT ![p] = None]
    /\ child' = [child EXCEPT ![p] = NoChild]
    /\ ssh_log' = [ssh_log EXCEPT ![p] = <<>>]
    /\ snap' = [snap EXCEPT ![p] = fs]
    /\ touched' = [touched EXCEPT ![p] = {}]
    /\ UNCHANGED <<fs, remote, umask, nkeys>>

(***************************************************************************)
(* init (main.rs:37-73).                                                   *)
(***************************************************************************)
Touch(p, op, path) ==
    touched' = [touched EXCEPT ![p] = @ \cup {[fn |-> fn[p], op |-> op, path |-> path]}]

\* the first safely_write call of init (main.rs:50-62)
PrivWrite(a, kp, host) ==
    [ which      |-> "priv",
      path       |-> Push(ssh_folder, host),
      buffer     |-> serialize_openssh(kp, a.passphrase),
      is_private |-> TRUE,
      force      |-> a.force ]

\* the second safely_write call of init (main.rs:64-69)
PubWrite(a, kp, host, priv_key_path) ==
    [ which      |-> "pub",
      path       |-> SetFileName(priv_key_path, DotPub(host)),
      buffer     |-> serialize_publickey(kp) \o <<"\n">>,
      is_private |-> FALSE,
      force      |-> a.force ]

\* the call as it is entered: its arguments, and for the record the file
\* the path names at that moment
Enter(w) ==
    [ which |-> w.which, path |-> w.path, buffer |-> w.buffer,
      is_private |-> w.is_private, force |-> w.force,
      existed |-> Exists(w.path),
      old |-> IF Exists(w.path) THEN fs[w.path] ELSE NoFile ]

\* main.rs:38-51: generate the key pair, set its comment, resolve the path
InitGenerate(p) ==
    /\ pc[p] = "init"
    /\ nkeys' = nkeys + 1
    /\ LET a == args[p]
           parts == SplitTarget(a.target)
           kp == [id |-> KeyIds[nkeys + 1], key_type |-> a.key_type,
                  comment |-> a.comment]
       IN  IF a.comment = None
           THEN \* args.comment.clone().unwrap()
                /\ Return(p, Panic, "comment")
                /\ key_pair' = [key_pair EXCEPT ![p] = kp]
                /\ UNCHANGED sw
           ELSE IF ~TargetMatches(parts)
           THEN \* panic!(":(")
                /\ Return(p, Panic, "target")
                /\ key_pair' = [key_pair EXCEPT ![p] = kp]
                /\ UNCHANGED sw
           ELSE /\ Goto(p, "sw_check")
                /\ key_pair' = [key_pair EXCEPT ![p] = kp]
                /\ sw' = [sw EXCEPT ![p] = Enter(PrivWrite(a, kp, TargetHost(parts)))]
    /\ UNCHANGED <<fs, remote, umask, opts, sw_ret, fd, rv, ncmds, child, ssh_log, snap,
                   touched>>

\* InitAfterWrite with the `?` of main.rs:62 left out: the public key is
\* written whatever became of the private key
InitAfterWrite_NoPropagation(which, res) ==
    IF which = "priv" THEN "pub" ELSE "return"

\* What init does when a safely_write call returned res (a Result): the `?`
\* of main.rs:62 and main.rs:69, and the order of the two calls.
InitAfterWrite(which, res) ==
    IF which = "priv" /\ res = Ok THEN "pub" ELSE "return"

(***************************************************************************)
(* safely_write (main.rs:80-109), one action per system call.              *)
(***************************************************************************)
\* safely_write returns res to init
SwReturn(p, res, where) ==
    /\ sw_ret' = [sw_ret EXCEPT ![p] =
                     [ which |-> sw[p].which, path |-> sw[p].path,
                       buffer |-> sw[p].buffer, is_private |-> sw[p].is_private,
                       force |-> sw[p].force, existed |-> sw[p].existed,
                       old |-> sw[p].old, res |-> res ]]
    /\ IF res # Panic /\ InitAfterWrite(sw[p].which, res) = "pub"
       THEN /\ Goto(p, "sw_check")
            /\ sw' = [sw EXCEPT ![p] =
                         Enter(PubWrite(args[p], key_pair[p],
                                        TargetHost(SplitTarget(args[p].target)),
                                        sw[p].path))]
       ELSE /\ Return(p, res, where)
            /\ UNCHANGED sw

\* main.rs:86-88: `if !force && path.exists() { panic!(..) }`
SwCheck(p) ==
    /\ pc[p] = "sw_check"
    /\ IF ~sw[p].force /\ Exists(sw[p].path)
       THEN SwReturn(p, Panic, "exists")
       ELSE /\ Goto(p, "sw_open")
            /\ UNCHANGED <<sw, sw_ret>>
    /\ UNCHANGED <<fs, remote, umask, opts, fd, rv, key_pair, nkeys, ncmds,
                   child, ssh_log, snap, touched>>

\* OpenOutcome with create(true) in the place of create_new(true): O_CREAT
\* without O_EXCL opens the file another invocation has just created
OpenOutcome_NotExclusive(force, present) ==
    IF present THEN "opened"
    ELSE (IF force THEN ErrNotFound ELSE "created")

\* main.rs:90-94: OpenOptions::new() [.create_new(true)] .write(true).open(path)
\* The result of open(2): "created", "opened", or the error it gives.
OpenOutcome(force, present) ==
    IF ~force
    THEN (IF present THEN ErrAlreadyExists ELSE "created")
    ELSE (IF present THEN "opened" ELSE ErrNotFound)

SwOpen(p) ==
    /\ pc[p] = "sw_open"
    /\ LET w == sw[p]
           out == OpenOutcome(w.force, Exists(w.path))
       IN  IF out \in {ErrAlreadyExists, ErrNotFound}
           THEN /\ SwReturn(p, out, "open")
                /\ UNCHANGED <<fs, fd, touched>>
           ELSE /\ Goto(p, IF w.is_private THEN "sw_chmod" ELSE "sw_write")
                /\ fd' = [fd EXCEPT ![p] =
                             [open |-> TRUE, path |-> w.path, unlinked |-> FALSE]]
                /\ IF out = "created"
                   THEN /\ fs' = (w.path :> File(<<>>, CreateMode(DefaultCreateMode, umask)))
                                 @@ fs
                        /\ Touch(p, "create", w.path)
                   ELSE UNCHANGED <<fs, touched>>
                /\ UNCHANGED <<sw, sw_ret>>
    /\ UNCHANGED <<remote, umask, opts, rv, key_pair, nkeys, ncmds, child, ssh_log, snap>>

\* main.rs:96-104: metadata(), set_mode(0o600), set_permissions() on the
\* open file.  A file unlinked meanwhile is no longer in the store.
SwChmod(p) ==
    /\ pc[p] = "sw_chmod"
    /\ Goto(p, "sw_write")
    /\ IF fd[p].unlinked
       THEN UNCHANGED <<fs, touched>>
       ELSE /\ fs' = [fs EXCEPT ![fd[p].path].mode = OwnerRW]
            /\ Touch(p, "chmod", fd[p].path)
    /\ UNCHANGED <<remote, umask, opts, sw, sw_ret, fd, rv, key_pair, nkeys, ncmds,
                   child, ssh_log, snap>>

\* write(2) at offset 0 of a file opened without O_TRUNC: the buffer replaces
\* the first Len(buffer) bytes, what lies behind them stays
WriteAtStart(old, buffer) == buffer \o SubSeq(old, Len(buffer) + 1, Len(old))

\* main.rs:106-108: priv_key_file.write(buffer)?; Ok(())   (the buffers are
\* short: one write(2) takes the whole buffer)
SwWrite(p) ==
    /\ pc[p] = "sw_write"
    /\ IF fd[p].unlinked
       THEN UNCHANGED <<fs, touched>>
       ELSE /\ fs' = [fs EXCEPT ![fd[p].path].data = WriteAtStart(@, sw[p].buffer)]
            /\ Touch(p, "write", fd[p].path)
    /\ fd' = [fd EXCEPT ![p] = NoFd]
    /\ SwReturn(p, Ok, None)
    /\ UNCHANGED <<remote, umask, opts, rv, key_pair, nkeys, ncmds, child, ssh_log, snap>>

(***************************************************************************)
(* revoke (main.rs:111-144).                                               *)
(***************************************************************************)
\* main.rs:121-125: the public key file revoke reads
KeyFilePath(a) ==
    LET key_file_name == IF a.identity_file_path = NoName THEN a.target
                         ELSE a.identity_file_path
    IN  Push(ssh_folder, DotPub(key_file_name))

\* ReadOutcome with the error of read_to_string swallowed (unwrap_or_default)
ReadOutcome_Swallowed(present) == Ok

\* read_to_string(&key_file_path)?  (main.rs:126): the text, or the error
\* that ends revoke
ReadOutcome(present) == IF present THEN Ok ELSE ErrNotFound

\* main.rs:112-127: resolve the target and the key file, read and escape it
RevokeRead(p) ==
    /\ pc[p] = "revoke"
    /\ LET a == args[p]
           parts == SplitTarget(a.target)
           path == KeyFilePath(a)
           text == IF Exists(path) THEN fs[path].data ELSE <<>>
       IN  IF ~TargetMatches(parts)
           THEN \* panic!(":(")
                /\ Return(p, Panic, "target")
                /\ UNCHANGED rv
           ELSE IF ReadOutcome(Exists(path)) # Ok
           THEN /\ Return(p, ReadOutcome(Exists(path)), "read")
                /\ UNCHANGED rv
           ELSE /\ Goto(p, "rv_ssh")
                /\ rv' = [rv EXCEPT ![p] =
                             [ target        |-> TargetHost(parts),
                               key_file_path |-> path,
                               key_data      |-> EscapeKeyData(text) ]]
    /\ UNCHANGED <<fs, remote, umask, opts, sw, sw_ret, fd, key_pair, nkeys, ncmds,
                   child, ssh_log, snap, touched>>

\* What becomes of the `ssh <host> -C <command>` the invocation started:
\* the connection fails (ssh exits 255 and the remote command never runs),
\* or the remote command runs.
SshOutcomes == {"connection_failed", "connected"}

\* sed cannot read an empty regular expression, nor one cut by a newline
SedAccepts(pat) == pat # <<>> /\ \A i \in 1..Len(pat) : pat[i] # "\n"

\* the exit status `wait()` returns
SshStatus(outcome, pat) ==
    IF outcome = "connection_failed" THEN 255
    ELSE IF SedAccepts(pat) THEN 0 ELSE 1

\* the remote authorized_keys after the command
SshEffect(outcome, lines, pat) ==
    IF outcome = "connected" /\ SedAccepts(pat) THEN SedDelete(lines, pat) ELSE lines

\* after `.spawn()?.wait()?` : the status wait() returned is dropped, the
\* function goes on whatever it is (main.rs:136-138)
AfterSsh(a, status) ==
    IF a.delete_identity_file THEN "rv_rm_pub" ELSE "return"

\* main.rs:128-135: Command::new("ssh").args(..).spawn()? -- the binary
\* cannot be started and `?` returns the error, or the child runs beside
\* the invocation from here on
RevokeSpawn(p, started) ==
    /\ pc[p] = "rv_ssh"
    /\ IF started
       THEN /\ child' = [child EXCEPT ![p] = [state |-> "running", status |-> 0]]
            /\ Goto(p, "rv_wait")
       ELSE /\ Return(p, ErrNotFound, "spawn")
            /\ UNCHANGED child
    /\ UNCHANGED <<fs, remote, umask, opts, sw, sw_ret, fd, rv, key_pair, nkeys, ncmds,
                   ssh_log, snap, touched>>

\* the child: ssh runs the command on the host, or fails to connect, and
\* exits; the invocation that started it sits in wait() meanwhile
SshRun(p, outcome) ==
    /\ child[p].state = "running"
    /\ LET status == SshStatus(outcome, rv[p].key_data)
       IN  /\ remote' = SshEffect(outcome, remote, rv[p].key_data)
           /\ child' = [child EXCEPT ![p] = [state |-> "exited", status |-> status]]
           /\ ssh_log' = [ssh_log EXCEPT ![p] =
                             Append(@, [ fn      |-> fn[p],
                                         before  |-> remote,
                                         host    |-> rv[p].target,
                                         pattern |-> rv[p].key_data,
                                         status  |-> status ])]
    /\ UNCHANGED <<fs, umask, opts, pc, fn, args, sw, sw_ret, fd, rv, key_pair, result,
                   site, nkeys, ncmds, snap, touched>>

\* main.rs:136-138: .wait()? returns once the child has ended: the error of
\* waitpid goes to the caller, an ExitStatus is dropped
RevokeWait(p, reaped) ==
    /\ pc[p] = "rv_wait"
    /\ child[p].state = "exited"
    /\ IF reaped
       THEN /\ child' = [child EXCEPT ![p].state = "reaped"]
            /\ IF AfterSsh(args[p], child[p].status) = "return"
               THEN Return(p, Ok, None)
               ELSE Goto(p, AfterSsh(args[p], child[p].status))
       ELSE /\ child' = [child EXCEPT ![p].state = "lost"]
            /\ Return(p, ErrChild, "wait")
    /\ UNCHANGED <<fs, remote, umask, opts, sw, sw_ret, fd, rv, key_pair, nkeys, ncmds,
                   ssh_log, snap, touched>>

\* unlink(2): the name goes; a file another invocation holds open lives on
\* without a name
Unlink(p, path) ==
    /\ fs' = [q \in DOMAIN fs \ {path} |-> fs[q]]
    /\ fd' = [q \in Procs |->
                 IF fd[q].open /\ fd[q].path = path
                 THEN [fd[q] EXCEPT !.unlinked = TRUE] ELSE fd[q]]
    /\ Touch(p, "remove", path)

\* main.rs:139: remove_file(&key_file_path)?
RevokeRemovePub(p) ==
    /\ pc[p] = "rv_rm_pub"
    /\ IF Exists(rv[p].key_file_path)
       THEN /\ Unlink(p, rv[p].key_file_path)
            /\ Goto(p, "rv_rm_priv")
       ELSE /\ Return(p, ErrNotFound, "remove_pub")
            /\ UNCHANGED <<fs, fd, touched>>
    /\ UNCHANGED <<remote, umask, opts, sw, sw_ret, rv, key_pair, nkeys, ncmds,
                   child, ssh_log, snap>>

\* main.rs:140-143: set_extension(""), remove_file(&key_file_path)?, Ok(())
RevokeRemovePriv(p) ==
    /\ pc[p] = "rv_rm_priv"
    /\ LET path == SetExtensionEmpty(rv[p].key_file_path)
       IN  IF Exists(path)
           THEN /\ Unlink(p, path)
                /\ Return(p, Ok, None)
           ELSE /\ Return(p, ErrNotFound, "remove_priv")
                /\ UNCHANGED <<fs, fd, touched>>
    /\ UNCHANGED <<remote, umask, opts, sw, sw_ret, rv, key_pair, nkeys, ncmds,
                   child, ssh_log, snap>>

(***************************************************************************)
(* Specifications.                                                         *)
(*   Spec:     invocations run one after the other (spec section 5).       *)
(***************************************************************************)
Next ==
    \/ \E subcmd \in SubCommands : Start(1, subcmd)
    \/ InitGenerate(1)
    \/ SwCheck(1)
    \/ SwOpen(1)
    \/ SwChmod(1)
    \/ SwWrite(1)
    \/ RevokeRead(1)
    \/ \E started \in BOOLEAN : RevokeSpawn(1, started)
    \/ \E outcome \in SshOutcomes : SshRun(1, outcome)
    \/ \E reaped \in BOOLEAN : RevokeWait(1, reaped)
    \/ RevokeRemovePub(1)
    \/ RevokeRemovePriv(1)

Spec == Init /\ [][Next]_vars

(***************************************************************************)
(*   SpecConc: two invocations, each an Init or a Revoke, run at the same  *)
(*   time, each process one invocation; the steps of the two, and of the   *)
(*   ssh a Revoke waits for, interleave in every order.                    *)
(***************************************************************************)
StartOnce(p, subcmd) ==
    /\ pc[p] = "idle"
    /\ Start(p, subcmd)

NextConc ==
    \E p \in Procs :
        \/ \E a \in KeyInit : StartOnce(p, [cmd |-> "Init", args |-> a])
        \/ \E a \in KeyRevoke : StartOnce(p, [cmd |-> "Revoke", args |-> a])
        \/ InitGenerate(p)
        \/ SwCheck(p)
        \/ SwOpen(p)
        \/ SwChmod(p)
        \/ SwWrite(p)
        \/ RevokeRead(p)
        \/ \E started \in BOOLEAN : RevokeSpawn(p, started)
        \/ \E outcome \in SshOutcomes : SshRun(p, outcome)
        \/ \E reaped \in BOOLEAN : RevokeWait(p, reaped)
        \/ RevokeRemovePub(p)
        \/ RevokeRemovePriv(p)

SpecConc == Init /\ [][NextConc]_vars

(***************************************************************************)
(* Properties.                                                             *)
(***************************************************************************)
\* the paths of the key pair the init of invocation p writes
PrivPathOf(p) ==
    IF sw[p].which = "priv" THEN sw[p].path ELSE SetExtensionEmpty(sw[p].path)
PubPathOf(p) == DotPub(PrivPathOf(p))

InitTouched(p, path) == \E e \in touched[p] : e.fn = "init" /\ e.path = path

\* the remote step of revoke failed: ssh could not be started, or it exited
\* with a status other than 0
RemoteFailed(p) ==
    \/ pc[p] = "done" /\ fn[p] = "revoke" /\ site[p] = "spawn"
    \/ \E i \in DOMAIN ssh_log[p] : ssh_log[p][i].fn = "revoke" /\ ssh_log[p][i].status # 0

\* C1: a safely_write call with force = false on a path that exists returns
\* the error AlreadyExists and leaves the file, contents and mode, as it was.
C1_ExistingPathGivesAlreadyExists ==
    \A p \in Procs :
        (sw_ret[p].which # None /\ ~sw_ret[p].force /\ sw_ret[p].existed) =>
            /\ sw_ret[p].res = ErrAlreadyExists
            /\ Exists(sw_ret[p].path)
            /\ fs[sw_ret[p].path] = sw_ret[p].old

\* C2: a safely_write call with force = true succeeds, whether the path was
\* absent or present, and leaves a file whose contents are exactly the buffer.
C2_ForceLeavesExactlyTheBuffer ==
    \A p \in Procs :
        (sw_ret[p].which # None /\ sw_ret[p].force) =>
            /\ sw_ret[p].res = Ok
            /\ Exists(sw_ret[p].path)
            /\ fs[sw_ret[p].path].data = sw_ret[p].buffer

\* safely_write(is_private = true) of invocation p holds the private key file
\* open, or has returned Ok
PrivOpened(p) ==
    /\ fn[p] = "init"
    /\ \/ sw[p].which = "priv" /\ pc[p] \in {"sw_chmod", "sw_write"}
       \/ sw[p].which = "pub"

\* C3: from the moment safely_write(is_private = true) has created or opened
\* the private key file, the file never grants access to group or others: its
\* mode is 0600 in every state, also between creation and permission change.
C3_PrivateKeyNeverReadableByOthers ==
    \A p \in Procs :
        (PrivOpened(p) /\ Exists(PrivPathOf(p))) =>
            /\ BitAnd(fs[PrivPathOf(p)].mode, 63) = 0      \* 0o077
            /\ fs[PrivPathOf(p)].mode = OwnerRW

\* C4: when the write of the private key fails in init, init ends there with
\* a failure, the public key file is neither written nor modified and init
\* runs no remote command; and init touches the public key file only after
\* it has written the private key.
C4_PrivateFailureStopsInit ==
    \A p \in Procs :
        /\ (fn[p] = "init" /\ sw_ret[p].which = "priv" /\ sw_ret[p].res # Ok) =>
               /\ pc[p] = "done"
               /\ result[p] = sw_ret[p].res
               /\ ExitCode(result[p]) # 0
               /\ ~InitTouched(p, PubPathOf(p))
               /\ opts[p].cmd = "Init" =>
                      /\ Exists(PubPathOf(p)) <=> (PubPathOf(p) \in DOMAIN snap[p])
                      /\ Exists(PubPathOf(p)) => fs[PubPathOf(p)] = snap[p][PubPathOf(p)]
               /\ \A i \in DOMAIN ssh_log[p] : ssh_log[p][i].fn # "init"
        /\ (fn[p] = "init" /\ sw[p].which # None /\ InitTouched(p, PubPathOf(p))) =>
               \E e \in touched[p] :
                   e.fn = "init" /\ e.op = "write" /\ e.path = PrivPathOf(p)

\* C4 witness: an init whose private key write failed with an I/O error while
\* a public key file was lying at the public path.
C4_Witness ==
    \E p \in Procs :
        /\ pc[p] = "done" /\ fn[p] = "init"
        /\ sw_ret[p].which = "priv" /\ sw_ret[p].res = ErrNotFound
        /\ Exists(PubPathOf(p))

\* C5: an init that reports success has run the remote deploy step exactly
\* once, and that step succeeded.
C5_InitSuccessMeansDeployed ==
    \A p \in Procs :
        (pc[p] = "done" /\ fn[p] = "init" /\ result[p] = Ok) =>
            /\ Cardinality({i \in DOMAIN ssh_log[p] : ssh_log[p][i].fn = "init"}) = 1
            /\ \A i \in DOMAIN ssh_log[p] :
                   ssh_log[p][i].fn = "init" => ssh_log[p][i].status = 0

\* revoke of invocation p has tried to read a public key file that was missing
ReadFailed(p) ==
    /\ fn[p] = "revoke" /\ pc[p] # "revoke"
    /\ TargetMatches(SplitTarget(args[p].target))
    /\ KeyFilePath(args[p]) \notin DOMAIN snap[p]

\* C6: when revoke cannot read the local public key file, revoke fails, runs
\* no remote command and deletes no local file.
C6_ReadFailureStopsRevoke ==
    \A p \in Procs :
        ReadFailed(p) =>
            /\ pc[p] = "done"
            /\ result[p] = ErrNotFound
            /\ ExitCode(result[p]) # 0
            /\ ssh_log[p] = <<>>
            /\ touched[p] = {}
            /\ fs = snap[p]

\* C6 witness: a revoke told to delete the identity files, in a store that
\* holds files, has failed to read its public key file.
C6_Witness ==
    \E p \in Procs :
        /\ ReadFailed(p) /\ pc[p] = "done"
        /\ args[p].delete_identity_file
        /\ DOMAIN snap[p] # {}

\* C7: when the remote step of a revoke with delete_identity_file fails, no
\* local key file is deleted.
C7_RemoteFailureKeepsLocalFiles ==
    \A p \in Procs :
        (/\ opts[p].cmd \in {"Revoke", "Renew"}
         /\ opts[p].args.delete_identity_file
         /\ RemoteFailed(p)) =>
            \A e \in touched[p] : ~(e.fn = "revoke" /\ e.op = "remove")

\* C8: a Revoke whose remote command failed ends with a failure and a
\* non-zero exit status.
C8_RemoteFailureIsReported ==
    \A p \in Procs :
        (pc[p] = "done" /\ opts[p].cmd = "Revoke" /\ RemoteFailed(p)) =>
            /\ result[p] # Ok
            /\ ExitCode(result[p]) # 0

\* the Revoke phase of invocation p failed: at the target, at the read, at the
\* remote command or at the local deletion
RevokePhaseFailed(p) ==
    \/ RemoteFailed(p)
    \/ pc[p] = "done" /\ fn[p] = "revoke" /\ result[p] # Ok

\* C9: when the Revoke phase of a Renew fails, the Init phase is not entered:
\* no key is generated, init touches no file, and Renew ends with a failure.
C9_RevokeFailureStopsRenew ==
    \A p \in Procs :
        (opts[p].cmd = "Renew" /\ RevokePhaseFailed(p)) =>
            /\ fn[p] = "revoke"
            /\ key_pair[p] = NoKeyPair
            /\ \A e \in touched[p] : e.fn # "init"
            /\ pc[p] = "done" => ExitCode(result[p]) # 0

\* C10: the Init phase of a Renew runs with force = true whatever the user
\* passed, and so does not fail because a key file exists.
C10_RenewInitIsForced ==
    \A p \in Procs :
        (opts[p].cmd = "Renew" /\ fn[p] = "init") =>
            /\ args[p].force
            /\ ~(pc[p] = "done" /\ site[p] = "exists")


\* the public key path of the identity named after the host of a target
HostPubPath(target) == Push(ssh_folder, DotPub(TargetHost(SplitTarget(target))))

\* C11: for a target host or user@host and no explicit identity name, revoke
\* resolves the identity name to the host, as init does: the file revoke reads
\* is <store>/<host>.pub, the public key file an init for that target writes.
C11_RevokeReadsTheHostKey ==
    \A p \in Procs :
        (/\ fn[p] = "revoke" /\ pc[p] # "revoke"
         /\ TargetMatches(SplitTarget(args[p].target))
         /\ args[p].identity_file_path = NoName) =>
            /\ KeyFilePath(args[p]) = HostPubPath(args[p].target)
            /\ (HostPubPath(args[p].target) \in DOMAIN snap[p]) =>
                   ~(pc[p] = "done" /\ site[p] = "read")

\* C12: a target that splits on '@' into more than two parts makes init and
\* revoke return a typed error through the result channel: the process is not
\* aborted, no file is touched and no remote command is run.
C12_BadTargetIsATypedError ==
    \A p \in Procs :
        (/\ pc[p] = "done"
         /\ opts[p].cmd = "Revoke" \/ opts[p].args.comment # None
         /\ ~TargetMatches(SplitTarget(opts[p].args.target))) =>
            /\ result[p] \notin {Ok, Panic}
            /\ touched[p] = {}
            /\ ssh_log[p] = <<>>


InRemote(line) == \E i \in DOMAIN remote : remote[i] = line

\* the public key file the Revoke phase of a Renew reads
RenewKeyFilePath(p) == KeyFilePath(KeyRevokeFromRenew(opts[p].args))

\* the public key of the identity when the Renew started, and the one its
\* Init phase generated
OldLine(p) == Trim(snap[p][RenewKeyFilePath(p)].data)
NewLine(p) == serialize_publickey(key_pair[p])

RemoteAtStart(p) == IF ssh_log[p] = <<>> THEN remote ELSE ssh_log[p][1].before
KeyText(p) == Trim(snap[p][KeyFilePath(args[p])].data)
ZeroMatches(p) ==
    /\ KeyFilePath(args[p]) \in DOMAIN snap[p]
    /\ \A i \in DOMAIN RemoteAtStart(p) : ~Contains(RemoteAtStart(p)[i], KeyText(p))

C15_RenewKeepsTheIdentitySlot ==
    \A p \in Procs :
        (opts[p].cmd = "Renew" /\ fn[p] = "init" /\ sw[p].which # None) =>
            PubPathOf(p) = RenewKeyFilePath(p)

\* C16: an Init without force that fails because a key file exists leaves the
\* identity store exactly as it found it, whichever of the two files existed.
C16_FailedInitLeavesStoreAlone ==
    \A p \in Procs :
        (/\ opts[p].cmd = "Init" /\ pc[p] = "done"
         /\ ~opts[p].args.force
         /\ sw_ret[p].which # None /\ sw_ret[p].existed /\ sw_ret[p].res # Ok) =>
            fs = snap[p]


\* invocation p has created, changed or written the file at path
Wrote(p, path) == \E e \in touched[p] : e.path = path

\* the buffer the init of invocation p hands to safely_write for path
BufferFor(p, path) ==
    LET host == TargetHost(SplitTarget(args[p].target))
        priv == PrivWrite(args[p], key_pair[p], host)
        pub == PubWrite(args[p], key_pair[p], host, priv.path)
    IN  IF path = priv.path THEN priv.buffer ELSE pub.buffer

\* both invocations are inits without force that found no file at path
RaceFor(p, q, path) ==
    /\ opts[p].cmd = "Init" /\ ~opts[p].args.force
    /\ opts[q].cmd = "Init" /\ ~opts[q].args.force
    /\ path \notin DOMAIN snap[p]
    /\ path \notin DOMAIN snap[q]

\* C17: of two invocations that call safely_write without force on the same
\* absent path, under every interleaving at most one creates and writes the
\* file; the other fails without touching it, and what the winner wrote is
\* exactly its buffer.
C17_OnlyOneInvocationWrites ==
    \A p \in Procs : \A q \in Procs \ {p} : \A e \in touched[p] :
        RaceFor(p, q, e.path) =>
            /\ ~Wrote(q, e.path)
            /\ (sw_ret[q].which # None /\ sw_ret[q].path = e.path) =>
                   sw_ret[q].res \in {Panic, ErrAlreadyExists}
            /\ e.op = "write" =>
                   (Exists(e.path) /\ fs[e.path].data = BufferFor(p, e.path))

\* C17 witness: both invocations passed the exists-check; one created and
\* wrote the file, the other lost at open with AlreadyExists.
C17_Witness ==
    \E p \in Procs : \E q \in Procs \ {p} : \E e \in touched[p] :
        /\ RaceFor(p, q, e.path)
        /\ e.op = "write"
        /\ sw_ret[q].which # None /\ sw_ret[q].path = e.path
        /\ sw_ret[q].res = ErrAlreadyExists
        /\ pc[q] = "done"

=============================================================================
